---- MODULE Spec2Model ----
(***************************************************************************)
(* A model of the numerical core of src/streamlit_app.py (HILL: helical    *)
(* indexing using layer lines).  Every core function of the program is a   *)
(* pure function; it is modelled by an operator that computes what the     *)
(* code computes, and by one action that calls it on arguments drawn from  *)
(* bounded sets.                                                           *)
(*                                                                         *)
(* Real numbers are exact rationals <<numerator, denominator>> (reduced,   *)
(* denominator > 0).  The code computes in IEEE floating point; the model  *)
(* computes the exact value of the same expression.  Irrational constants  *)
(* (2*pi, the first zeros of J'_n, cos(k*pi/12), ln) are tabulated in      *)
(* fixed point.                                                            *)
(***************************************************************************)
EXTENDS Integers, Sequences, FiniteSets, TLC

VARIABLES op, args, ret

vars == <<op, args, ret>>

(***************************************************************************)
(* Bounds of the model.                                                    *)
(***************************************************************************)
\* the largest n distinct_sampling is called with
MaxN == 6
\* the largest cyclic symmetry compute_layer_line_positions is called with
MaxCsym == 3
\* the largest sample of the images normalize is called with
MaxSample == 1
\* the largest sample of the images compute_power_spectra is called with
MaxSpectraSample == 1
\* the largest height and width of the images tapering is called with
MaxTaperSize == 5
\* the largest width of the grid bessel_n_image is called with
MaxBesselNx == 7
\* the largest side of the images rotate_shift_image is called with
MaxRotSize == 4
\* the largest width of the images auto_vertical_center is called with
MaxAvcWidth == 4
\* the largest side of the grids resize_rescale_power_spectra is called with
MaxResizeSize == 4
\* the largest cyclic symmetry simulate_helix is called with
MaxSimCsym == 3
\* the largest width of the grid simulate_helix is called with
MaxSimNx == 3

(***************************************************************************)
(* Exact rational arithmetic: Python's float operators on exact values.    *)
(***************************************************************************)
Abs(x) == IF x < 0 THEN -x ELSE x

RECURSIVE GCD(_, _)
GCD(a, b) == IF b = 0 THEN a ELSE GCD(b, a % b)

\* the rational n/d, reduced, with a positive denominator (d # 0)
Rat(n, d) ==
    LET g == GCD(Abs(n), Abs(d))
        s == IF d < 0 THEN -1 ELSE 1
    IN  <<(s * n) \div g, (s * d) \div g>>

RInt(n) == <<n, 1>>

RAdd(a, b) ==
    LET g == GCD(a[2], b[2])
    IN  Rat(a[1] * (b[2] \div g) + b[1] * (a[2] \div g), (a[2] \div g) * b[2])

RNeg(a) == <<-a[1], a[2]>>

RSub(a, b) == RAdd(a, RNeg(b))

RMul(a, b) ==
    LET g1 == GCD(Abs(a[1]), b[2])
        g2 == GCD(Abs(b[1]), a[2])
    IN  Rat((a[1] \div g1) * (b[1] \div g2), (a[2] \div g2) * (b[2] \div g1))

\* a / b for b # 0
RDiv(a, b) == RMul(a, Rat(b[2], b[1]))

RAbs(a) == <<Abs(a[1]), a[2]>>

RLt(a, b) ==
    LET g == GCD(a[2], b[2])
    IN  a[1] * (b[2] \div g) < b[1] * (a[2] \div g)

RLe(a, b) ==
    LET g == GCD(a[2], b[2])
    IN  a[1] * (b[2] \div g) <= b[1] * (a[2] \div g)

Sign(n) == IF n > 0 THEN 1 ELSE IF n < 0 THEN -1 ELSE 0

\* numpy's a / b on finite a, b: <<1, 0>> (inf), <<-1, 0>> (-inf) or <<0, 0>>
\* (nan), with a RuntimeWarning and no exception, when b is 0
FDiv(a, b) == IF b[1] = 0 THEN <<Sign(a[1]), 0>> ELSE RDiv(a, b)

IsFinite(a) == a[2] # 0

\* Python's i % c for integers, c # 0: the result has the sign of c
PyMod(i, c) == IF c > 0 THEN i % c ELSE -((-i) % (-c))

\* math.floor / np.floor / the // operator
RFloor(a) == a[1] \div a[2]

\* int(): truncation toward zero
RTrunc(a) == IF a[1] >= 0 THEN a[1] \div a[2] ELSE -((-a[1]) \div a[2])

\* the array v, with its elements computed once, when it is built, as numpy
\* does (a function of the model is otherwise recomputed at every use)
Evaluated(v) == IF v = v THEN v ELSE v

\* list(range(lo, hi + 1)): the integers lo..hi in ascending order
Range(lo, hi) == [j \in 1..(hi - lo + 1) |-> lo + j - 1]

(***************************************************************************)
(* distinct_sampling(n), lines 708-725.  None is modelled by NoneVal, an   *)
(* integer that is no index.                                               *)
(***************************************************************************)
NoneVal == -1

\* the inner for loop (lines 716-722) over the remaining candidates `all`
\* (ascending), from the state <<err_max, val_max>>
RECURSIVE ScanMax(_, _, _, _)
ScanMax(all, ref, err_max, val_max) ==
    IF all = <<>> THEN val_max
    ELSE LET v == Head(all)
             err == Abs(v - ref)
         IN  IF err > err_max
             THEN ScanMax(Tail(all), ref, err, v)
             ELSE ScanMax(Tail(all), ref, err_max, val_max)

\* off by one: err_max starts at 1, so that a candidate at distance 1 never
\* replaces val_max = None
PickMaxFromOne(all, ref) == ScanMax(all, ref, 1, NoneVal)

\* lines 716-722: err_max = 0, val_max = None, then the scan
PickMax(all, ref) == ScanMax(all, ref, 0, NoneVal)

\* all.remove(v): the list without the first occurrence of v; removing None
\* (never in the list) raises ValueError, modelled by leaving the list empty
RECURSIVE ListRemove(_, _)
ListRemove(all, v) ==
    IF all = <<>> THEN <<>>
    ELSE IF Head(all) = v THEN Tail(all)
    ELSE <<Head(all)>> \o ListRemove(Tail(all), v)

\* the most recent element: ret[-1]
RefOfLast(r) == r[Len(r)]

\* ret[-2:][0]: the second most recent element, or the only one
RefOf(r) == IF Len(r) >= 2 THEN r[Len(r) - 1] ELSE r[1]

\* the while loop, lines 714-724
RECURSIVE SamplingLoop(_, _)
SamplingLoop(all, r) ==
    IF all = <<>> THEN r
    ELSE LET val_max == PickMax(all, RefOf(r))
         IN  IF val_max = NoneVal
             THEN r \o <<NoneVal>>
             ELSE SamplingLoop(ListRemove(all, val_max), r \o <<val_max>>)

distinct_sampling(n) ==
    IF n = 1 THEN <<0>> ELSE SamplingLoop(Range(1, n - 1), <<0>>)

(***************************************************************************)
(* Tabulated constants.                                                    *)
(***************************************************************************)
\* scipy.special.jnp_zeros(n, 1)[0], n = 1..160: the first zero of J'_n,
\* in units of 1/10000
JnpZeroTable ==
    <<
       18412, 30542, 42012, 53176, 64156, 75013, 85778, 96474,
       107114, 117709, 128265, 138788, 149284, 159754, 170203, 180633,
       191045, 201441, 211823, 222191, 232548, 242894, 253229, 263555,
       273872, 284181, 294482, 304775, 315062, 325342, 335616, 345885,
       356147, 366405, 376658, 386906, 397149, 407388, 417623, 427854,
       438081, 448304, 458524, 468741, 478954, 489165, 499372, 509576,
       519778, 529976, 540173, 550366, 560557, 570746, 580933, 591117,
       601299, 611479, 621657, 631833, 642007, 652179, 662349, 672518,
       682685, 692850, 703013, 713175, 723335, 733494, 743651, 753807,
       763961, 774114, 784266, 794416, 804565, 814713, 824859, 835004,
       845148, 855291, 865433, 875573, 885712, 895851, 905988, 916124,
       926259, 936394, 946527, 956659, 966790, 976921, 987050, 997178,
       1007306, 1017433, 1027559, 1037684, 1047808, 1057931, 1068054, 1078176,
       1088297, 1098417, 1108537, 1118656, 1128774, 1138891, 1149008, 1159123,
       1169239, 1179353, 1189467, 1199580, 1209693, 1219805, 1229916, 1240027,
       1250137, 1260247, 1270356, 1280464, 1290572, 1300679, 1310786, 1320892,
       1330997, 1341102, 1351207, 1361310, 1371414, 1381517, 1391619, 1401721,
       1411822, 1421923, 1432023, 1442123, 1452223, 1462322, 1472420, 1482518,
       1492616, 1502713, 1512810, 1522906, 1533002, 1543097, 1553192, 1563287,
       1573381, 1583475, 1593568, 1603661, 1613754, 1623846, 1633937, 1644029
    >>

\* jnp_zeros(n, 1)[0]; scipy takes abs(n)
jnp_zeros(n) == Rat(JnpZeroTable[Abs(n)], 10000)

\* 2*np.pi to four decimals
TwoPi == Rat(62832, 10000)

\* the tilt angles of the model, by index: 0 degrees, atan(3/4) = 36.87
\* degrees and -atan(4/3) = -53.13 degrees, whose cosine and sine are rational
TiltIds == {0, 1, 2}

\* np.cos(np.deg2rad(tilt))
CosTilt(t) == CASE t = 0 -> RInt(1) [] t = 1 -> Rat(4, 5) [] OTHER -> Rat(3, 5)

\* np.sin(np.deg2rad(tilt))
SinTilt(t) == CASE t = 0 -> RInt(0) [] t = 1 -> Rat(3, 5) [] OTHER -> Rat(-4, 5)

\* floor of the square root of n >= 0, by bisection on lo <= root < hi
RECURSIVE ISqrtIn(_, _, _)
ISqrtIn(n, lo, hi) ==
    IF hi - lo <= 1 THEN lo
    ELSE LET mid == (lo + hi) \div 2
         IN  IF mid * mid <= n THEN ISqrtIn(n, mid, hi) ELSE ISqrtIn(n, lo, mid)

ISqrt(n) == ISqrtIn(n, 0, 32768)

(***************************************************************************)
(* compute_layer_line_positions, lines 727-775.                            *)
(***************************************************************************)
\* line 1046, Data.pitch: (360./twist)*rise, signed
DataPitch(twist, rise) == RMul(RDiv(RInt(360), twist), rise)

\* the rise of half a turn: 180 where line 730 has 360
pitch_half_turn(twist, rise) == RAbs(RDiv(RMul(rise, RInt(180)), twist))

\* lines 729-731
pitch(twist, rise) == RAbs(RDiv(RMul(rise, RInt(360)), twist))

\* lines 733-742, one element: the first peak of J_n over 2*pi*radius; peak1
\* is a numpy float, so radius = 0 gives inf and no exception
peak_sx(bessel_order, radius) ==
    IF bessel_order = 0 THEN RInt(0)
    ELSE FDiv(jnp_zeros(bessel_order), RMul(TwoPi, radius))

\* a plain ascending sort: the key of line 747 forgotten
PlainLe(a, b) == a <= b

\* the order line 747 sorts by: the key (abs(x), x)
SortLe(a, b) == Abs(a) < Abs(b) \/ (Abs(a) = Abs(b) /\ a <= b)

RECURSIVE InsertSorted(_, _)
InsertSorted(x, s) ==
    IF s = <<>> THEN <<x>>
    ELSE IF SortLe(x, Head(s)) THEN <<x>> \o s
    ELSE <<Head(s)>> \o InsertSorted(x, Tail(s))

\* list.sort(key=...), line 747 (the keys of distinct integers are distinct)
RECURSIVE SortByKey(_)
SortByKey(s) == IF s = <<>> THEN <<>> ELSE InsertSorted(Head(s), SortByKey(Tail(s)))

\* line 745
MMax(rise, cutoff_res) == RFloor(RAbs(RDiv(rise, cutoff_res))) + 2

\* lines 744-747: the orders m, in the order the groups are made
MOrders(rise, cutoff_res, m) ==
    IF m = <<>>
    THEN SortByKey(Range(-MMax(rise, cutoff_res), MMax(rise, cutoff_res)))
    ELSE m

\* line 761
LlITop(twist, rise, cutoff_res, mi) ==
    LET smax == RDiv(RInt(1), cutoff_res)
        sy0 == RDiv(RInt(mi), rise)
        ds_p == RDiv(RInt(1), pitch(twist, rise))
    IN  RTrunc(RDiv(RSub(smax, sy0), ds_p))

\* line 762
LlIBottom(twist, rise, cutoff_res, mi) ==
    LET smax == RDiv(RInt(1), cutoff_res)
        sy0 == RDiv(RInt(mi), rise)
        ds_p == RDiv(RInt(1), pitch(twist, rise))
    IN  -RTrunc(RDiv(RAbs(RSub(RNeg(smax), sy0)), ds_p))

\* every index of the range kept: the csym filter forgotten
KeepAll(i, csym) == TRUE

\* line 763: `if not i%csym`
KeepIndex(i, csym) == PyMod(i, csym) = 0

\* line 763: the kept contributions, ascending
LlI(lo, hi, csym) == SelectSeq(Range(lo, hi), LAMBDA i : KeepIndex(i, csym))

\* the pitch used where its reciprocal belongs: sy0 + i/ds_p
SyOfPitch(sy0, i, ds_p) == RAdd(sy0, RDiv(RInt(i), ds_p))

\* line 764, one element
SyOf(sy0, i, ds_p) == RAdd(sy0, RMul(RInt(i), ds_p))

\* lines 767-769, one element, in fixed point (units of 1/10000):
\* sqrt(sx^2 - (sy*tf2)^2), 1e-6 where the square root is nan, inf where
\* sx is
SxTilted(sx, sy, tilt) ==
    IF ~IsFinite(sx) THEN <<1, 0>>
    ELSE LET a == RFloor(RMul(sx, RInt(10000)))
             b == RFloor(RMul(RAbs(RMul(sy, SinTilt(tilt))), RInt(10000)))
             disc == a * a - b * b
         IN  IF disc < 0 THEN Rat(1, 1000000) ELSE Rat(ISqrt(disc), 10000)

\* the peaks repeated where their mirror belongs: list(sx) + list(sx)
Repeated(sx) == sx \o sx

\* line 770: list(sx) + list(-sx)
Mirrored(sx) == sx \o [j \in 1..Len(sx) |-> RNeg(sx[j])]

\* lines 755-772: the group of order mi; lo, hi and ll_i are the locals
\* ll_i_bottom, ll_i_top and ll_i, kept beside LL = (px, py)
Group(twist, rise, csym, radius, tilt, cutoff_res, mi) ==
    LET sy0 == RDiv(RInt(mi), rise)
        ds_p == RDiv(RInt(1), pitch(twist, rise))
        hi == LlITop(twist, rise, cutoff_res, mi)
        lo == LlIBottom(twist, rise, cutoff_res, mi)
        ll_i == Evaluated(LlI(lo, hi, csym))
        k == Len(ll_i)
        sy0v == Evaluated([j \in 1..k |-> SyOf(sy0, ll_i[j], ds_p)])
        sx0v == Evaluated([j \in 1..k |-> peak_sx(ll_i[j], radius)])
        sy == IF tilt # 0
              THEN Evaluated([j \in 1..k |-> RDiv(sy0v[j], CosTilt(tilt))])
              ELSE sy0v
        sx == IF tilt # 0
              THEN Evaluated([j \in 1..k |-> SxTilted(sx0v[j], sy[j], tilt)])
              ELSE sx0v
        px == Mirrored(sx)
        py == sy \o sy
    IN  [m |-> mi, lo |-> lo, hi |-> hi, ll_i |-> ll_i, px |-> px, py |-> py]

\* lines 753-775: m_groups as the sequence of its groups in insertion order
\* (a dict keeps insertion order; the orders m are distinct).  The function
\* checks no argument: twist = 0 divides by zero at line 730 and csym = 0 at
\* line 763 (Python numbers: ZeroDivisionError), in the first pass of the loop
compute_layer_line_positions(twist, rise, csym, radius, tilt, cutoff_res, m) ==
    LET ms == MOrders(rise, cutoff_res, m)
    IN  IF twist = RInt(0) \/ csym = 0
        THEN [status |-> "ZeroDivisionError"]
        ELSE [status |-> "ok",
              groups |-> [g \in 1..Len(ms) |->
                            Group(twist, rise, csym, radius, tilt, cutoff_res,
                                  ms[g])]]

(***************************************************************************)
(* Images: a grid is a sequence of rows, a row a sequence of samples.  A   *)
(* sample is a rational, or the result of a float division by zero:        *)
(* <<1, 0>> is inf, <<-1, 0>> is -inf and <<0, 0>> is nan.                 *)
(***************************************************************************)
NRows(g) == Len(g)

NCols(g) == Len(g[1])

\* data.flatten(), row by row
RECURSIVE Flatten(_)
Flatten(g) == IF g = <<>> THEN <<>> ELSE Head(g) \o Flatten(Tail(g))

RECURSIVE InsertAscending(_, _)
InsertAscending(x, s) ==
    IF s = <<>> THEN <<x>>
    ELSE IF RLe(x, Head(s)) THEN <<x>> \o s
    ELSE <<Head(s)>> \o InsertAscending(x, Tail(s))

\* the samples in ascending order
RECURSIVE SortAscending(_)
SortAscending(s) ==
    IF s = <<>> THEN <<>> ELSE InsertAscending(Head(s), SortAscending(Tail(s)))

\* np.percentile(data, p), p in percent: linear interpolation between the
\* two order statistics around the position p/100*(N-1)
percentile(data, p) ==
    LET a == SortAscending(Flatten(data))
        pos == RMul(Rat(p, 100), RInt(Len(a) - 1))
        lo == RFloor(pos)
        frac == RSub(pos, RInt(lo))
    IN  IF lo + 1 >= Len(a) THEN a[Len(a)]
        ELSE RAdd(a[lo + 1], RMul(frac, RSub(a[lo + 2], a[lo + 1])))

(***************************************************************************)
(* normalize, lines 988-993.                                               *)
(***************************************************************************)
\* line 991: vmin, vmax = sorted(np.percentile(data, (p0, p1)))
VMin(data, p0, p1) ==
    LET v0 == percentile(data, p0)
        v1 == percentile(data, p1)
    IN  IF RLe(v0, v1) THEN v0 ELSE v1

VMax(data, p0, p1) ==
    LET v0 == percentile(data, p0)
        v1 == percentile(data, p1)
    IN  IF RLe(v0, v1) THEN v1 ELSE v0

\* the offset forgotten: data/(vmax-vmin)
NormalizeSampleNoOffset(x, vmin, vmax) == FDiv(x, RSub(vmax, vmin))

\* line 992, one sample: (data-vmin)/(vmax-vmin)
NormalizeSample(x, vmin, vmax) == FDiv(RSub(x, vmin), RSub(vmax, vmin))

\* lines 989-993; the function has no failing path: it returns data2
normalize(data, p0, p1) ==
    LET vmin == VMin(data, p0, p1)
        vmax == VMax(data, p0, p1)
    IN  [status |-> "ok",
         data |-> [r \in 1..NRows(data) |->
                     [c \in 1..NCols(data) |->
                        NormalizeSample(data[r][c], vmin, vmax)]]]

(***************************************************************************)
(* tapering, lines 852-878.                                                *)
(***************************************************************************)
\* (1 + cos(k*pi/12))/2 for k = 0..12, in units of 1/10000
RollOffTable ==
    <<10000, 9830, 9330, 8536, 7500, 6294, 5000, 3706, 2500, 1464, 670, 170, 0>>

\* (1. + np.cos(t*np.pi))/2.0 for 0 <= t <= 1: the tabulated value where 12*t
\* is an integer, linear between the two neighbouring ones elsewhere
RollOff(t) ==
    LET pos == RMul(t, RInt(12))
        k == RFloor(pos)
        frac == RSub(pos, RInt(k))
    IN  IF k >= 12 THEN RInt(0)
        ELSE RAdd(Rat(RollOffTable[k + 1], 10000),
                  RMul(frac, Rat(RollOffTable[k + 2] - RollOffTable[k + 1], 10000)))

\* `0<=f<1`: the fraction 0 taken as a taper that starts at the centre
InUnitClosed(f) == RLe(RInt(0), f) /\ RLt(f, RInt(1))

\* `0<f<1`, lines 855, 859 and 868
InUnit(f) == RLt(RInt(0), f) /\ RLt(f, RInt(1))

\* lines 860-866 (868-876): the roll-off of one axis at the pixel with the
\* centred index k (k = index - n//2) of an axis of n pixels
AxisMask(k, n, f, fraction_slope) ==
    LET y == Rat(Abs(k), n \div 2)
    IN  IF RLt(y, f) THEN RInt(1)
        ELSE IF RLt(RAdd(f, fraction_slope), y) THEN RInt(0)
        ELSE RollOff(RDiv(RSub(y, f), fraction_slope))

\* lines 858-876: the filter at row r, column c (1-based)
TaperFilter(r, c, ny, nx, fy, fx, fraction_slope) ==
    RMul(IF InUnit(fy) THEN AxisMask(r - 1 - ny \div 2, ny, fy, fraction_slope)
                       ELSE RInt(1),
         IF InUnit(fx) THEN AxisMask(c - 1 - nx \div 2, nx, fx, fraction_slope)
                       ELSE RInt(1))

\* line 855: `if not (0<fy<1 and 0<fx<1): return data`
TaperSkipped(fy, fx) == ~(InUnit(fy) /\ InUnit(fx))

\* lines 853-878
tapering(data, fy, fx, fraction_slope) ==
    IF TaperSkipped(fy, fx) THEN data
    ELSE [r \in 1..NRows(data) |->
            [c \in 1..NCols(data) |->
               RMul(data[r][c],
                    TaperFilter(r, c, NRows(data), NCols(data), fy, fx,
                                fraction_slope))]]

(***************************************************************************)
(* bessel_n_image, lines 634-666.                                          *)
(***************************************************************************)
\* lines 638-645: the number of orders n >= 1 appended to the table, from
\* order n on: the loop stops at the first peak that is not below xmax
RECURSIVE TableOrders(_, _)
TableOrders(n, xmax) ==
    IF RLt(jnp_zeros(n), xmax) THEN 1 + TableOrders(n + 1, xmax) ELSE 0

\* lines 636-645: table[n + 1] is the first peak of order n; table[1] = 0
build_bessel_order_table(xmax) ==
    [n1 \in 1..(1 + TableOrders(1, xmax)) |->
        IF n1 = 1 THEN RInt(0) ELSE jnp_zeros(n1 - 1)]

\* np.abs(table - x).argmin(): the scan from index n1 on, <<best, dist>> the
\* first minimum so far
RECURSIVE ArgMinScan(_, _, _, _, _)
ArgMinScan(table, x, n1, best, dist) ==
    IF n1 > Len(table) THEN best
    ELSE LET d == RAbs(RSub(table[n1], x))
         IN  IF RLt(d, dist)
             THEN ArgMinScan(table, x, n1 + 1, n1, d)
             ELSE ArgMinScan(table, x, n1 + 1, best, dist)

\* the highest order whose peak is not above x: the distance forgotten
NearestOrderBelow(table, x) ==
    Cardinality({n1 \in 1..Len(table) : RLe(table[n1], x)}) - 1

\* lines 658 and 665: the order (0-based index) whose peak is nearest to x
NearestOrder(table, x) ==
    ArgMinScan(table, x, 2, 1, RAbs(RSub(table[1], x))) - 1

\* the largest element of a sequence of rationals
RECURSIVE RMaxOf(_)
RMaxOf(s) ==
    IF Len(s) = 1 THEN s[1]
    ELSE LET t == RMaxOf(Tail(s))
         IN  IF RLt(t, Head(s)) THEN Head(s) ELSE t

\* np.hypot(a, b) in fixed point (units of 1/100)
Hypot(a, b) ==
    LET a100 == RFloor(RMul(RAbs(a), RInt(100)))
        b100 == RFloor(RMul(RAbs(b), RInt(100)))
    IN  Rat(ISqrt(a100 * a100 + b100 * b100), 100)

\* lines 649, 650 and 661: 1./(nyquist_res_x*n//2), where * and // associate
\* to the left: (nyquist_res_x*n)//2
FreqStep(nyquist_res_x, n) ==
    RDiv(RInt(1), RInt(RFloor(RDiv(RMul(nyquist_res_x, RInt(n)), RInt(2)))))

\* the centred index with its sign: np.abs forgotten
CentredSigned(j, n) == j - n \div 2

\* lines 652, 653 and 662: np.abs(np.arange(n) - n//2) at the 0-based index j
CentredAbs(j, n) == Abs(j - n \div 2)

\* line 662: xs at the 0-based column j
Xs(j, nx, nyquist_res_x, radius) ==
    RMul(RMul(RMul(TwoPi, RInt(CentredAbs(j, nx))), FreqStep(nyquist_res_x, nx)),
         radius)

\* lines 652-655: X at the 0-based row i and column j
XTilted(i, j, ny, nx, nyquist_res_x, radius, tilt) ==
    LET y == RDiv(RMul(RMul(RMul(TwoPi, RInt(CentredAbs(i, ny))),
                            FreqStep(nyquist_res_x, ny)), radius),
                  CosTilt(tilt))
    IN  Hypot(Xs(j, nx, nyquist_res_x, radius), RMul(y, SinTilt(tilt)))

\* lines 635-666; nyquist_res_y is not used by the code
bessel_n_image(ny, nx, nyquist_res_x, nyquist_res_y, radius, tilt) ==
    IF tilt # 0
    THEN LET X == Evaluated([i \in 1..ny |->
                     [j \in 1..nx |->
                        XTilted(i - 1, j - 1, ny, nx, nyquist_res_x, radius, tilt)]])
             table == Evaluated(build_bessel_order_table(RMaxOf(Flatten(X))))
         IN  [i \in 1..ny |-> [j \in 1..nx |-> NearestOrder(table, X[i][j])]]
    ELSE LET xs == Evaluated([j \in 1..nx |-> Xs(j - 1, nx, nyquist_res_x, radius)])
             table == Evaluated(build_bessel_order_table(RMaxOf(xs)))
             indices == Evaluated([j \in 1..nx |-> NearestOrder(table, xs[j])])
         IN  [i \in 1..ny |-> indices]

(***************************************************************************)
(* The Fourier transforms, on grids of 2 x 2 samples, where every phase    *)
(* factor is 1 or -1 and the transform of a real grid is real.             *)
(***************************************************************************)
\* exp(i*pi*k) for an integer k
Parity(k) == IF k % 2 = 0 THEN 1 ELSE -1

\* the sum of the four samples of a 2 x 2 grid
SumGrid(g) == RAdd(RAdd(g[1][1], g[1][2]), RAdd(g[2][1], g[2][2]))

\* np.fft.fft2(g): the sample at index i (1-based) has the phase
\* exp(-2*pi*i*(a-1)*(i-1)/2) at the frequency index a
fft2(g) ==
    [a \in 1..2 |-> [b \in 1..2 |->
        SumGrid([i \in 1..2 |-> [j \in 1..2 |->
                   RMul(RInt(Parity((a - 1) * (i - 1) + (b - 1) * (j - 1))),
                        g[i][j])]])]]

\* np.fft.ifft2(g)
ifft2(g) ==
    [a \in 1..2 |-> [b \in 1..2 |->
        RDiv(SumGrid([i \in 1..2 |-> [j \in 1..2 |->
                        RMul(RInt(Parity((a - 1) * (i - 1) + (b - 1) * (j - 1))),
                             g[i][j])]]),
             RInt(4))]]

\* np.fft.fftshift(g): the element at the 0-based index i moves to
\* (i + n//2) % n on each axis
fftshift(g) ==
    [a \in 1..NRows(g) |-> [b \in 1..NCols(g) |->
        g[((a - 1 + NRows(g) - NRows(g) \div 2) % NRows(g)) + 1]
         [((b - 1 + NCols(g) - NCols(g) \div 2) % NCols(g)) + 1]]]

\* lines 816-832 for a 2 x 2 image, cutoff_res = (2*apix, 2*apix) and
\* output_size = (2, 2): np.fft.fftfreq(2) = [0, -1/2], so the transform is
\* evaluated at the points 0 and -pi (in half turns: 0 and -1) of each axis;
\* nufft2d2 sums f[k]*exp(-i*k*x) over the modes k = -1, 0 of the samples 1,
\* 2; lines 827-830 negate every second row and every second column
fft_rescale(image) ==
    [a \in 1..2 |-> [b \in 1..2 |->
        RMul(RInt(Parity((a - 1) + (b - 1))),
             SumGrid([i \in 1..2 |-> [j \in 1..2 |->
                        RMul(RInt(Parity((i - 2) * (1 - a) + (j - 2) * (1 - b))),
                             image[i][j])]]))]]

\* ln(n) for n = 1..16, in units of 1/10000
LnTable ==
    <<0, 6931, 10986, 13863, 16094, 17918, 19459, 20794,
      21972, 23026, 23979, 24849, 25649, 26391, 27081, 27726>>

\* np.log(np.abs(x)) for a nonzero integer x
LogAbs(x) == Rat(LnTable[Abs(x[1])], 10000)

\* np.angle(x) of a real x, in half turns: 0, and pi for a negative x
Angle(x) == IF x[1] < 0 THEN 1 ELSE 0

(***************************************************************************)
(* low_high_pass_filter, lines 834-850, on a 2 x 2 grid.                   *)
(***************************************************************************)
\* lines 838-840: the centred index over n//2 at the 1-based index a
FilterCoord(a, n) == Rat(a - 1 - n \div 2, n \div 2)

\* np.exp(-f2*r2) with f2 = np.log(2)/fraction**2: 2^(-r2/fraction^2), for a
\* fraction whose r2/fraction^2 is an integer
GaussWeight(r2, fraction) ==
    Rat(1, 2 ^ (RDiv(r2, RMul(fraction, fraction))[1]))

\* lines 842-843 and 846-847: the filters at the grid position (a, b)
FilterLp(a, b, ny, nx, fraction) ==
    GaussWeight(RAdd(RMul(FilterCoord(b, nx), FilterCoord(b, nx)),
                     RMul(FilterCoord(a, ny), FilterCoord(a, ny))), fraction)

FilterHp(a, b, ny, nx, fraction) ==
    RSub(RInt(1), FilterLp(a, b, ny, nx, fraction))

\* lines 835-850
low_high_pass_filter(data, low_pass_fraction, high_pass_fraction) ==
    LET ny == NRows(data)
        nx == NCols(data)
        f0 == fft2(data)
        lp == fftshift([a \in 1..ny |-> [b \in 1..nx |->
                          FilterLp(a, b, ny, nx, low_pass_fraction)]])
        f1 == IF InUnit(low_pass_fraction)
              THEN [a \in 1..ny |-> [b \in 1..nx |-> RMul(f0[a][b], lp[a][b])]]
              ELSE f0
        hp == fftshift([a \in 1..ny |-> [b \in 1..nx |->
                          FilterHp(a, b, ny, nx, high_pass_fraction)]])
        f2 == IF InUnit(high_pass_fraction)
              THEN [a \in 1..ny |-> [b \in 1..nx |-> RMul(f1[a][b], hp[a][b])]]
              ELSE f1
        back == ifft2(f2)
    IN  [a \in 1..ny |-> [b \in 1..nx |-> RAbs(back[a][b])]]

(***************************************************************************)
(* compute_power_spectra, lines 793-804.                                   *)
(***************************************************************************)
\* line 798: `if log: pwr = np.log(np.abs(fft))`; there is no else branch,
\* so the local pwr is bound only when log is true
PwrAfterLog(fft, log) ==
    IF log
    THEN [bound |-> TRUE,
          value |-> [a \in 1..NRows(fft) |-> [b \in 1..NCols(fft) |->
                       LogAbs(fft[a][b])]]]
    ELSE [bound |-> FALSE, value |-> <<>>]

\* lines 794-804: reading the unbound local pwr (line 800 or 801) raises
\* UnboundLocalError; otherwise the function returns (pwr, phase)
compute_power_spectra(data, log, low_pass_fraction, high_pass_fraction) ==
    LET fft == fftshift(fft_rescale(data))
        pwr0 == PwrAfterLog(fft, log)
    IN  IF ~pwr0.bound
        THEN [status |-> "UnboundLocalError", pwr |-> <<>>, phase |-> <<>>]
        ELSE LET pwr1 == IF InUnit(low_pass_fraction) \/ InUnit(high_pass_fraction)
                         THEN low_high_pass_filter(pwr0.value, low_pass_fraction,
                                                   high_pass_fraction)
                         ELSE pwr0.value
             IN  [status |-> "ok",
                  pwr |-> normalize(pwr1, 0, 100).data,
                  phase |-> [a \in 1..NRows(fft) |-> [b \in 1..NCols(fft) |->
                               Angle(fft[a][b])]]]

(***************************************************************************)
(* rotate_shift_image, lines 952-970.  Coordinates are [y, x], counted     *)
(* from 0 as in the code; the grids of the model are indexed from 1.  The  *)
(* angle is one of the angles of TiltIds, by index.  A shift argument is a *)
(* record: list tells whether the caller passed a list ([0, 0]) or a tuple *)
(* ((0, 0), the default), v is its value <<dy, dx>>.                       *)
(***************************************************************************)
NaN == <<0, 0>>

\* IEEE a + b on samples that may be inf, -inf or nan
FAdd(a, b) ==
    IF IsFinite(a) /\ IsFinite(b) THEN RAdd(a, b)
    ELSE IF a = NaN \/ b = NaN THEN NaN
    ELSE IF IsFinite(a) THEN b
    ELSE IF IsFinite(b) THEN a
    ELSE IF a = b THEN a ELSE NaN

\* IEEE a * b on samples that may be inf, -inf or nan
FMul(a, b) ==
    IF IsFinite(a) /\ IsFinite(b) THEN RMul(a, b)
    ELSE IF a = NaN \/ b = NaN \/ a[1] = 0 \/ b[1] = 0 THEN NaN
    ELSE <<Sign(a[1]) * Sign(b[1]), 0>>

\* line 955: angle==0 and pre_shift==[0,0] and post_shift==[0,0]; a tuple
\* never equals a list in Python, so the default (0, 0) does not pass
IsFastPath(angle, pre_shift, post_shift) ==
    /\ angle = 0
    /\ pre_shift.list /\ pre_shift.v = <<RInt(0), RInt(0)>>
    /\ post_shift.list /\ post_shift.v = <<RInt(0), RInt(0)>>

\* line 960: m = [[cos, -sin], [sin, cos]]
RotationMatrix(angle) ==
    <<<<CosTilt(angle), RNeg(SinTilt(angle))>>,
      <<SinTilt(angle), CosTilt(angle)>>>>

\* np.dot(m, v) for a 2 x 2 matrix and a vector of 2
Dot(m, v) ==
    <<RAdd(RMul(m[1][1], v[1]), RMul(m[1][2], v[2])),
      RAdd(RMul(m[2][1], v[1]), RMul(m[2][2], v[2]))>>

\* lines 957-958: rotation_center = (ny//2, nx//2)
RotationCenter(ny, nx) == <<RInt(ny \div 2), RInt(nx \div 2)>>

\* the post-shift taken unrotated: -post where line 964 has -m.post
OffsetPostUnrotated(m, center, pre, post) ==
    LET mc == Dot(m, center)
    IN  [k \in 1..2 |->
           RSub(RAdd(RNeg(post[k]), RSub(center[k], mc[k])), pre[k])]

\* lines 964-966: offset = -m.post + (center - m.center) - pre
Offset(m, center, pre, post) ==
    LET mp == Dot(m, post)
        mc == Dot(m, center)
    IN  [k \in 1..2 |->
           RSub(RAdd(RNeg(mp[k]), RSub(center[k], mc[k])), pre[k])]

\* an index beyond the edge is reflected about the last sample, as
\* scipy.ndimage does for the taps of an in-range coordinate
MirrorIndex(idx, len) == IF idx >= len THEN 2 * len - 2 - idx ELSE idx

\* the two weights exchanged
LinearTapsSwapped(cc, len) ==
    LET start == RFloor(cc)
        t == RSub(cc, RInt(start))
    IN  <<[index |-> start, weight |-> t],
          [index |-> MirrorIndex(start + 1, len), weight |-> RSub(RInt(1), t)]>>

\* order=1: the two samples around the coordinate cc (0 <= cc <= len-1) and
\* their linear weights
LinearTaps(cc, len) ==
    LET start == RFloor(cc)
        t == RSub(cc, RInt(start))
    IN  <<[index |-> start, weight |-> RSub(RInt(1), t)],
          [index |-> MirrorIndex(start + 1, len), weight |-> t]>>

\* mode='constant': a coordinate outside [0, len-1] yields cval = 0
InRange(cc, len) == RLe(RInt(0), cc) /\ RLe(cc, RInt(len - 1))

\* the input sampled at the coordinate <<cy, cx>> by bilinear interpolation
Interpolate(data, cy, cx) ==
    IF ~(InRange(cy, NRows(data)) /\ InRange(cx, NCols(data))) THEN RInt(0)
    ELSE LET ty == LinearTaps(cy, NRows(data))
             tx == LinearTaps(cx, NCols(data))
             term(a, b) == FMul(RMul(ty[a].weight, tx[b].weight),
                                data[ty[a].index + 1][tx[b].index + 1])
         IN  FAdd(FAdd(term(1, 1), term(1, 2)), FAdd(term(2, 1), term(2, 2)))

\* line 969: output[o] = input sampled at m.o + offset
affine_transform(data, m, offset) ==
    Evaluated([r \in 1..NRows(data) |-> [c \in 1..NCols(data) |->
        LET o == <<RInt(r - 1), RInt(c - 1)>>
            mo == Dot(m, o)
        IN  Interpolate(data, RAdd(mo[1], offset[1]), RAdd(mo[2], offset[2]))]])

\* lines 953-970, with rotation_center=None and order=1
rotate_shift_image(data, angle, pre_shift, post_shift) ==
    IF IsFastPath(angle, pre_shift, post_shift) THEN data
    ELSE LET m == RotationMatrix(angle)
             offset == Offset(m, RotationCenter(NRows(data), NCols(data)),
                              pre_shift.v, post_shift.v)
         IN  affine_transform(data, m, offset)


(***************************************************************************)
(* auto_vertical_center, lines 893-950.  The three numerical searches      *)
(* (minimize_scalar, fmin, minimize_scalar) return values the code does    *)
(* not determine; the angle the second search ends on and the position of  *)
(* the third search's result within its bounds are arguments of the model, *)
(* chosen by the caller of the operator among a few candidates.            *)
(***************************************************************************)
\* IEEE a < b on samples that may be inf, -inf or nan
FLt(a, b) ==
    IF a = NaN \/ b = NaN THEN FALSE
    ELSE IF ~IsFinite(a) THEN a[1] < 0 /\ a # b
    ELSE IF ~IsFinite(b) THEN b[1] > 0
    ELSE RLt(a, b)

\* IEEE a / b for a, b finite or nan
FQuot(a, b) == IF a = NaN \/ b = NaN THEN NaN ELSE FDiv(a, b)

\* np.max of a non-empty sequence of samples, finite or nan: nan if any is
RECURSIVE FMaxOf(_)
FMaxOf(s) ==
    IF Len(s) = 1 THEN s[1]
    ELSE LET rest == FMaxOf(Tail(s))
         IN  IF s[1] = NaN \/ rest = NaN THEN NaN
             ELSE IF RLt(s[1], rest) THEN rest ELSE s[1]

\* the sum of a sequence of samples
RECURSIVE FSum(_)
FSum(s) == IF s = <<>> THEN RInt(0) ELSE FAdd(Head(s), FSum(Tail(s)))

\* line 896: image_work[[0,1,2,-3,-2,-1],[0,1,2,-3,-2,-1]], the six samples
\* (0,0) (1,1) (2,2) (-3,-3) (-2,-2) (-1,-1), and their mean
Background(image) ==
    LET ny == NRows(image)
        nx == NCols(image)
        rows == <<1, 2, 3, ny - 2, ny - 1, ny>>
        cols == <<1, 2, 3, nx - 2, nx - 1, nx>>
    IN  RDiv(FSum([k \in 1..6 |-> image[rows[k]][cols[k]]]), RInt(6))

\* line 897: thresh = (max - background)*0.2 + background
Thresh(image) ==
    LET bg == Background(image)
    IN  RAdd(RMul(RSub(FMaxOf(Flatten(image)), bg), Rat(1, 5)), bg)

\* lines 898-899: (image - thresh)/(max - thresh), then the samples below 0
\* set to 0 (nan is not below 0 and stays)
WorkImage(image) ==
    LET thresh == Thresh(image)
        range == RSub(FMaxOf(Flatten(image)), thresh)
    IN  Evaluated([r \in 1..NRows(image) |-> [c \in 1..NCols(image) |->
           LET v == FDiv(RSub(image[r][c], thresh), range)
           IN  IF FLt(v, RInt(0)) THEN RInt(0) ELSE v]])

\* line 933: y = np.sum(image_work, axis=0)
ColumnSums(g) ==
    Evaluated([c \in 1..NCols(g) |-> FSum([r \in 1..NRows(g) |-> g[r][c]])])

\* line 934: y /= y.max()
PeakNormalized(y) ==
    LET peak == FMaxOf(y)
    IN  Evaluated([c \in 1..Len(y) |-> FQuot(y[c], peak)])

\* line 935: y[y<0.2] = 0
ZeroBelowFifth(y) ==
    Evaluated([c \in 1..Len(y) |->
                 IF FLt(y[c], Rat(1, 5)) THEN RInt(0) ELSE y[c]])

\* line 937: mask = np.where(y>0.5), as a set of columns counted from 1
Mask(y) == {c \in 1..Len(y) : FLt(Rat(1, 2), y[c])}

SetMax(S) == CHOOSE x \in S : \A z \in S : z <= x

SetMin(S) == CHOOSE x \in S : \A z \in S : x <= z

\* line 938, with the columns of mask counted from 0 as in the code
MaxShift(mask, n) ==
    RMul(RInt(Abs(((SetMax(mask) - 1) - n \div 2)
                  - (n \div 2 - (SetMin(mask) - 1)))), Rat(3, 2))

\* lines 894-950.  found_angle is the angle fmin ends on (line 929),
\* found_at in {-1, 1} places the result of the last search at the lower
\* or at the upper bound of the interval (-max_shift, max_shift).  The
\* result carries the locals mask and max_shift next to the returned pair.
auto_vertical_center(image, found_angle, found_at) ==
    LET image_work == rotate_shift_image(WorkImage(image), found_angle,
                         [list |-> FALSE, v |-> <<RInt(0), RInt(0)>>],
                         [list |-> FALSE, v |-> <<RInt(0), RInt(0)>>])
        y == ZeroBelowFifth(PeakNormalized(ColumnSums(image_work)))
        n == Len(y)
        mask == Mask(y)
    IN  IF mask = {}
        THEN [status |-> "ValueError", searched |-> TRUE]
        ELSE LET max_shift == MaxShift(mask, n)
                 x == RMul(RInt(found_at), max_shift)
             IN  [status |-> "ok", searched |-> TRUE,
                  angle |-> found_angle,
                  dx |-> RAdd(x, IF n % 2 = 1 THEN RInt(0) ELSE Rat(1, 2)),
                  mask |-> mask, max_shift |-> max_shift]


(***************************************************************************)
(* simulate_helix, lines 668-706.  Angles are whole degrees, multiples of  *)
(* 6; cosines are tabulated in fixed point.  A pixel of the projection is  *)
(* the sum of exp(e) over the subunit centres; the model keeps the         *)
(* exponents e of the terms, in the order of the centres.                  *)
(***************************************************************************)
\* cos(0), cos(6), ..., cos(90 degrees) in units of 1/100.  np.cos of 90
\* degrees is 6.1e-17 in floating point, not 0: the last entry is the least
\* unit, so that it stays nonzero
CosTable == <<100, 99, 98, 95, 91, 87, 81, 74, 67, 59, 50, 41, 31, 21, 10, 1>>

\* np.cos(np.deg2rad(a)) for a multiple of 6
CosDeg(a) ==
    LET r == a % 360
        f == IF r <= 180 THEN r ELSE 360 - r
    IN  IF f <= 90 THEN Rat(CosTable[f \div 6 + 1], 100)
        ELSE Rat(-CosTable[(180 - f) \div 6 + 1], 100)

\* np.sin(np.deg2rad(a)) for a multiple of 6; exactly 0 only at a = 0
SinDeg(a) == IF a = 0 THEN RInt(0) ELSE CosDeg(a - 90)

\* line 683: imax = int(height/rise)
IMax(height, rise) == RTrunc(RDiv(height, rise))

\* the pairs (i, si) in the order of the loops of lines 688-690
HelixPairs(imax, csym) ==
    [k \in 1..((2 * imax + 1) * csym) |->
        <<(k - 1) \div csym - imax, (k - 1) % csym>>]

\* the row written without the symmetry index
RowIndexNoSi(i, si, csym, n) == IF i * csym < 0 THEN i * csym + n ELSE i * csym

\* lines 694-696: the row i*csym+si of an array of n rows, counted from 0; a
\* negative index counts from the end
RowIndex(i, si, csym, n) ==
    IF i * csym + si < 0 THEN i * csym + si + n ELSE i * csym + si

\* line 691, in degrees
AngleDeg(twist, i, si, csym, az0) == twist * i + (si * 360) \div csym + az0 + 90

\* lines 688-696: the writes of the pairs k, k+1, ... into centers; writes
\* counts how often a row has been written
RECURSIVE WriteRows(_, _, _, _, _, _, _, _)
WriteRows(centers, pairs, k, twist, rise, csym, radius, az0) ==
    IF k > Len(pairs) THEN centers
    ELSE LET i == pairs[k][1]
             si == pairs[k][2]
             angle == AngleDeg(twist, i, si, csym, az0)
             row == RowIndex(i, si, csym, Len(centers)) + 1
         IN  WriteRows([centers EXCEPT ![row] =
                           [x |-> RMul(CosDeg(angle), radius),
                            y |-> RMul(SinDeg(angle), radius),
                            z |-> RMul(rise, RInt(i)),
                            writes |-> @.writes + 1]],
                       pairs, k + 1, twist, rise, csym, radius, az0)

\* lines 682-696: the array of centres, from zeros (line 687)
CentersArray(twist, rise, csym, radius, height, az0) ==
    LET imax == IMax(height, rise)
        zeros == [r \in 1..((2 * imax + 1) * csym) |->
                     [x |-> RInt(0), y |-> RInt(0), z |-> RInt(0), writes |-> 0]]
    IN  Evaluated(WriteRows(zeros, Evaluated(HelixPairs(imax, csym)), 1, twist,
                            rise, csym, radius, az0))

\* lines 697-702: the rotation about x by tilt, then the projection along
\* y: a centre becomes (z, x)
helical_unit_positions(twist, rise, csym, radius, height, tilt, az0) ==
    LET centers == CentersArray(twist, rise, csym, radius, height, az0)
    IN  Evaluated([k \in 1..Len(centers) |->
           LET p == centers[k]
               z == IF tilt = 0 THEN p.z
                    ELSE RAdd(RMul(p.y, SinTilt(tilt)), RMul(p.z, CosTilt(tilt)))
           IN  <<z, p.x>>])

\* lines 670-681: the exponent -(x*x+y*y)/sigma2 of every centre, at every
\* pixel; -inf or nan when sigma is 0
simulate_projection(centers, sigma, ny, nx, apix) ==
    LET sigma2 == RMul(sigma, sigma)
    IN  [r \in 1..ny |-> [c \in 1..nx |->
           [k \in 1..Len(centers) |->
              LET y == RSub(RMul(RInt(r - 1 - ny \div 2), apix), centers[k][1])
                  x == RSub(RMul(RInt(c - 1 - nx \div 2), apix), centers[k][2])
              IN  FDiv(RNeg(RAdd(RMul(x, x), RMul(y, y))), sigma2)]]]

\* np.exp(e) is exactly 0: e is -inf, or so negative that the float32
\* result underflows
ExpIsZero(e) == e = <<-1, 0>> \/ (IsFinite(e) /\ RLt(e, RInt(-104)))

\* lines 669-706.  az0 is NoneVal when the argument is omitted; drawn is
\* then the value np.random.uniform(0, 360) returns (line 703).  The result
\* carries the locals az0 and centers (the array of lines 687-696) next to
\* the returned projection.
simulate_helix(twist, rise, csym, helical_radius, ball_radius, ny, nx, apix, tilt, az0, drawn) ==
    LET az == IF az0 = NoneVal THEN drawn ELSE az0
        height == RMul(RInt(ny), apix)
    IN  [az0 |-> az,
         centers |-> CentersArray(twist, rise, csym, helical_radius, height, az),
         projection |->
            Evaluated(simulate_projection(
                helical_unit_positions(twist, rise, csym, helical_radius,
                                       height, tilt, az),
                ball_radius, ny, nx, apix))]


(***************************************************************************)
(* main, the lines that bind and use phase: 357-365, 397, 405-424, 447 and *)
(* 476-483.  pwr is not followed.  A Python value that may be None is a    *)
(* record: PyNone, or PySome(v) for the value v.                           *)
(***************************************************************************)
PyNone == [none |-> TRUE]

PySome(v) == [none |-> FALSE, value |-> v]

\* line 360: the condition under which the checkboxes "Phase" and "PD" exist
PhaseOffered(is_pwr, input_image2, is_pwr2) ==
    ~is_pwr \/ (input_image2 /\ ~is_pwr2)

\* lines 410 and 419: the phase bound from the result r of
\* compute_power_spectra, whose exception ends main
BoundPhase(r) ==
    IF r.status = "ok"
    THEN [status |-> "ok", phase |-> PySome(r.phase)]
    ELSE [status |-> r.status]

\* lines 405-411 and 414-420: the phase one input image gives;
\* resize_rescale_power_spectra returns pwr alone (line 791) and main binds
\* None (lines 408 and 417)
PhaseOfInput(is_pwr, data, log_xform, lp_fraction, hp_fraction) ==
    IF is_pwr
    THEN [status |-> "ok", phase |-> PyNone]
    ELSE BoundPhase(compute_power_spectra(data, log_xform, lp_fraction,
                                          hp_fraction))

\* lines 413-424, 447 and 476-481, after line 411 gave `first` and, with a
\* second image, lines 414-420 gave `second`: a use of phase (lines 447 and
\* 477-481) while it is None is a TypeError
PhaseShown(is_pwr, input_image2, show_phase, show_phase_diff, first, second) ==
    IF first.status # "ok" THEN [status |-> first.status]
    ELSE IF input_image2 /\ second.status # "ok"
    THEN [status |-> second.status]
    ELSE IF (show_phase \/ show_phase_diff)
            /\ first.phase.none
            /\ ~(input_image2 /\ is_pwr /\ ~second.phase.none)
    THEN [status |-> "TypeError"]
    ELSE [status |-> "ok", show_phase |-> show_phase,
          show_phase_diff |-> show_phase_diff,
          phase |-> IF input_image2 /\ is_pwr /\ ~second.phase.none
                    THEN second.phase
                    ELSE first.phase]

\* phase_box and pd_box are the states of the two checkboxes where they
\* exist (lines 360-365); without a second image phase2 is not bound and
\* not read
main(show_pwr, is_pwr, input_image2, is_pwr2, log_xform, lp_fraction, hp_fraction, phase_box, pd_box, data, data2) ==
    IF ~show_pwr THEN [status |-> "return"]
    ELSE PhaseShown(is_pwr, input_image2,
                    PhaseOffered(is_pwr, input_image2, is_pwr2) /\ phase_box,
                    PhaseOffered(is_pwr, input_image2, is_pwr2) /\ pd_box,
                    PhaseOfInput(is_pwr, data, log_xform, lp_fraction,
                                 hp_fraction),
                    IF input_image2
                    THEN PhaseOfInput(is_pwr2, data2, log_xform, lp_fraction,
                                      hp_fraction)
                    ELSE [status |-> "ok", phase |-> PyNone])

(***************************************************************************)
(* resize_rescale_power_spectra, lines 777-791.  Python reads line 784 as  *)
(* ((((Y/(ony//2))*nyquist_res)/res_y)*ny)//2 + ny//2: `*`, `/` and `//`   *)
(* have one precedence and associate to the left, so every coordinate is   *)
(* floored to an integer.                                                  *)
(***************************************************************************)
\* lines 783-785: the input coordinate of the 0-based output index k on an
\* axis of input length n and output length on
ResampleCoord(k, on, n, nyquist_res, res) ==
    RFloor(RDiv(RMul(RDiv(RMul(Rat(k - on \div 2, on \div 2), nyquist_res),
                          res),
                     RInt(n)),
                RInt(2)))
    + n \div 2

\* line 786, map_coordinates(order=3, mode='constant') at integer
\* coordinates (0-based): the spline passes through the samples, and a
\* coordinate outside the grid yields cval = 0
map_coordinates(data, y, x) ==
    IF y < 0 \/ y > NRows(data) - 1 \/ x < 0 \/ x > NCols(data) - 1
    THEN RInt(0)
    ELSE data[y + 1][x + 1]

\* line 787 on a grid of integers of magnitude at most 16, no sample 0
LogGrid(g) ==
    [r \in 1..NRows(g) |-> [c \in 1..NCols(g) |-> LogAbs(g[r][c])]]

\* lines 787-790 for log=True and a grid with a sample 0: np.log gives
\* -inf there, and normalize (line 992) subtracts the percentile -inf (or
\* nan) from every sample and divides by an infinite (or nan) range: every
\* sample is nan
AllNaN(g) == [r \in 1..NRows(g) |-> [c \in 1..NCols(g) |-> NaN]]

\* lines 778-791; Y and X are kept as the coordinates of each output row
\* and column, resampled is the local pwr after line 786
resize_rescale_power_spectra(data, nyquist_res, cutoff_res, output_size, log, low_pass_fraction, high_pass_fraction) ==
    LET ny == NRows(data)
        nx == NCols(data)
        ony == output_size[1]
        onx == output_size[2]
        Y == Evaluated([r \in 1..ony |->
                ResampleCoord(r - 1, ony, ny, nyquist_res, cutoff_res[1])])
        X == Evaluated([c \in 1..onx |->
                ResampleCoord(c - 1, onx, nx, nyquist_res, cutoff_res[2])])
        resampled == Evaluated([r \in 1..ony |-> [c \in 1..onx |->
                        map_coordinates(data, Y[r], X[c])]])
        filtered(g) == IF InUnit(low_pass_fraction) \/ InUnit(high_pass_fraction)
                       THEN low_high_pass_filter(g, low_pass_fraction,
                                                 high_pass_fraction)
                       ELSE g
    IN  [Y |-> Y, X |-> X, resampled |-> resampled,
         pwr |-> IF ~log THEN normalize(filtered(resampled), 0, 100).data
                 ELSE IF \E r \in 1..ony, c \in 1..onx : resampled[r][c] = RInt(0)
                 THEN AllNaN(resampled)
                 ELSE normalize(filtered(LogGrid(resampled)), 0, 100).data]


\* main, line 428: the frequency step of the x-axis of the displayed
\* spectrum, 1/(nx//2*cutoff_res_x)
dsx(nx, cutoff_res_x) == RDiv(RInt(1), RMul(RInt(nx \div 2), cutoff_res_x))


(***************************************************************************)
(* The arguments the functions are called with.                            *)
(***************************************************************************)
\* twist in degrees: 29.4 (the example of line 1053) and -45
Twists == {Rat(147, 5), RInt(-45)}

\* rise in Angstrom: 21.92 (line 1053) and 4.7
Rises == {Rat(548, 25), Rat(47, 10)}

\* helix radius in Angstrom: 69 (half the diameter of line 1053) and 20
Radii == {RInt(69), RInt(20)}

\* cutoff resolution in Angstrom
Cutoffs == {RInt(10), RInt(20), RInt(25)}

\* the explicit order lists m; <<>> is the default m=[]
MLists == {<<>>, <<0, 1>>}

\* the samples of the images normalize is called with
Samples == {RInt(v) : v \in -1..MaxSample}

\* the 2 x 2 images over Samples
Images == [1..2 -> [1..2 -> Samples]]

\* the images tapering is called with, ny x nx: a ramp of positive samples
\* and a checkerboard of alternating sign
TaperImage(kind, ny, nx) ==
    [r \in 1..ny |->
       [c \in 1..nx |->
          IF kind = "ramp" THEN RInt((r - 1) * nx + c)
          ELSE RInt(IF (r + c) % 2 = 0 THEN r + c ELSE -(r + c))]]

\* the start fractions: the default 0, 1/4, the 0.7 of line 386, and 1
Fractions == {RInt(0), Rat(1, 4), Rat(7, 10), RInt(1)}

\* fraction_slope: the default 0.1, and 1/2
Slopes == {Rat(1, 10), Rat(1, 2)}

\* the cutoff resolutions bessel_n_image is called with: 10 and 7.5 Angstrom
BesselRes == {RInt(10), Rat(15, 2)}

\* a radius that puts the column next to the origin of a grid of width 6 at
\* x = 0.9206, midway between the peaks of the orders 0 and 1, when
\* nyquist_res_x = 10
TieRadius == Rat(23015, 5236)

\* the 2 x 2 images compute_power_spectra is called with: nonnegative
\* samples, and no Fourier coefficient 0 (whose logarithm is -inf)
SpectraImages ==
    {g \in [1..2 -> [1..2 -> {RInt(v) : v \in 0..MaxSpectraSample}]] :
        \A a, b \in 1..2 : fft_rescale(g)[a][b][1] # 0}

\* the low-pass and high-pass fractions: the default 0, 1/2, and 1
FilterFractions == {RInt(0), Rat(1, 2), RInt(1)}

\* the percentile pairs: the default (0, 100), (25, 75), (50, 50), whose two
\* values are equal, and the reversed pair (100, 0)
PercentilePairs == {<<0, 100>>, <<25, 75>>, <<50, 50>>, <<100, 0>>}

\* the images rotate_shift_image is called with: a ramp of distinct samples
\* and a single bright sample off the centre
RotImage(kind, ny, nx) ==
    [r \in 1..ny |-> [c \in 1..nx |->
        IF kind = "ramp" THEN RInt((r - 1) * nx + c)
        ELSE IF r = 1 /\ c = 2 THEN RInt(1) ELSE RInt(0)]]

\* the shifts: the default tuple (0, 0), the list [0, 0], and the tuples
\* (0, 1) and (0.5, 0)
Shifts ==
    {[list |-> FALSE, v |-> <<RInt(0), RInt(0)>>],
     [list |-> TRUE, v |-> <<RInt(0), RInt(0)>>],
     [list |-> FALSE, v |-> <<RInt(0), RInt(1)>>],
     [list |-> FALSE, v |-> <<Rat(1, 2), RInt(0)>>]}


\* the images auto_vertical_center is called with, 3 rows high: the
\* constant image of sample a ("const"), the image with a on the whole
\* diagonal ("diag"), and the image with a at the position p and b at the
\* position q ("sparse"); positions are counted row by row from 1
AvcImage(kind, nx, p, q, a, b) ==
    Evaluated([r \in 1..3 |-> [c \in 1..nx |->
        RInt(CASE kind = "const" -> a
               [] kind = "diag" -> IF r = c THEN a ELSE 0
               [] OTHER -> IF (r - 1) * nx + c = p THEN a
                           ELSE IF (r - 1) * nx + c = q THEN b ELSE 0)]])


\* simulate_helix: twist in whole degrees, rise and radii in Angstrom
SimTwists == {30, -90}

SimRises == {RInt(2)}

SimRadii == {RInt(1), RInt(2)}

\* ball_radius: 0 (the default of line 248) and 1
BallRadii == {RInt(0), RInt(1)}

\* az0: omitted, or 0 degrees (the default of line 251)
Azimuths == {NoneVal, 0}

\* the values the draw of line 703 takes in the model
AzimuthDraws == {0, 90, 180}


\* the 2 x 2 input images of main: one bright pixel, and one dark pixel
MainImages ==
    {<<<<RInt(0), RInt(0)>>, <<RInt(0), RInt(1)>>>>,
     <<<<RInt(1), RInt(1)>>, <<RInt(1), RInt(0)>>>>}


\* the 2 x 2 images low_high_pass_filter is called with: samples of either
\* sign
FilterImages == [1..2 -> [1..2 -> {RInt(-1), RInt(0), RInt(1)}]]


\* the amplitude grids resize_rescale_power_spectra is called with: the
\* sample at row r and column c (1-based) is r + c - 1
ResizeImage(ny, nx) == [r \in 1..ny |-> [c \in 1..nx |-> RInt(r + c - 1)]]


(***************************************************************************)
(* The state machine: one call of one function from the idle state.        *)
(***************************************************************************)
Init ==
    /\ op = "idle"
    /\ args = <<>>
    /\ ret = <<>>

CallDistinctSampling ==
    /\ op = "idle"
    /\ \E n \in 1..MaxN :
          /\ op' = "distinct_sampling"
          /\ args' = [n |-> n]
          /\ ret' = distinct_sampling(n)

CallComputeLayerLinePositions ==
    /\ op = "idle"
    /\ \E twist \in Twists \cup {RInt(0)}, rise \in Rises,
          csym \in (-1)..MaxCsym, radius \in Radii \cup {RInt(0)},
          tilt \in TiltIds, cutoff_res \in Cutoffs,
          m \in MLists :
          /\ op' = "compute_layer_line_positions"
          /\ args' = [twist |-> twist, rise |-> rise, csym |-> csym,
                      radius |-> radius, tilt |-> tilt,
                      cutoff_res |-> cutoff_res, m |-> m]
          /\ ret' = compute_layer_line_positions(twist, rise, csym, radius,
                                                  tilt, cutoff_res, m)

CallNormalize ==
    /\ op = "idle"
    /\ \E data \in Images, pp \in PercentilePairs :
          /\ op' = "normalize"
          /\ args' = [data |-> data, percentile |-> pp]
          /\ ret' = normalize(data, pp[1], pp[2])

CallTapering ==
    /\ op = "idle"
    /\ \E kind \in {"ramp", "checker"}, ny \in 4..MaxTaperSize,
          nx \in 4..MaxTaperSize, fy \in Fractions, fx \in Fractions,
          fraction_slope \in Slopes :
          /\ op' = "tapering"
          /\ args' = [data |-> TaperImage(kind, ny, nx),
                      fraction_start |-> <<fy, fx>>,
                      fraction_slope |-> fraction_slope]
          /\ ret' = tapering(TaperImage(kind, ny, nx), fy, fx, fraction_slope)

CallBesselNImage ==
    /\ op = "idle"
    /\ \E ny \in {2, 3}, nx \in 4..MaxBesselNx, res \in BesselRes,
          radius \in Radii \cup {TieRadius}, tilt \in TiltIds :
          /\ radius = TieRadius => (nx = 6 /\ res = RInt(10))
          /\ op' = "bessel_n_image"
          /\ args' = [ny |-> ny, nx |-> nx, nyquist_res_x |-> res,
                      nyquist_res_y |-> res, radius |-> radius, tilt |-> tilt]
          /\ ret' = bessel_n_image(ny, nx, res, res, radius, tilt)

\* the call of line 410 with cutoff_res = (2*apix, 2*apix) and output_size =
\* data.shape
CallComputePowerSpectra ==
    /\ op = "idle"
    /\ \E data \in SpectraImages, log \in BOOLEAN,
          low_pass_fraction \in FilterFractions,
          high_pass_fraction \in FilterFractions :
          /\ op' = "compute_power_spectra"
          /\ args' = [data |-> data, log |-> log,
                      low_pass_fraction |-> low_pass_fraction,
                      high_pass_fraction |-> high_pass_fraction]
          /\ ret' = compute_power_spectra(data, log, low_pass_fraction,
                                          high_pass_fraction)

CallRotateShiftImage ==
    /\ op = "idle"
    /\ \E kind \in {"ramp", "dot"}, ny \in 3..MaxRotSize, nx \in 3..MaxRotSize,
          angle \in TiltIds, pre_shift \in Shifts, post_shift \in Shifts :
          /\ op' = "rotate_shift_image"
          /\ args' = [data |-> RotImage(kind, ny, nx), angle |-> angle,
                      pre_shift |-> pre_shift, post_shift |-> post_shift]
          /\ ret' = rotate_shift_image(RotImage(kind, ny, nx), angle,
                                       pre_shift, post_shift)


CallAutoVerticalCenter ==
    /\ op = "idle"
    /\ \E kind \in {"const", "diag", "sparse"}, nx \in 3..MaxAvcWidth :
       \E p \in 1..(3 * nx), q \in 1..(3 * nx), a \in 0..2, b \in 0..2,
          found_angle \in TiltIds, found_at \in {-1, 1} :
          /\ IF kind = "sparse"
             THEN p < q /\ a = 2 /\ (b = 0 => q = p + 1)
             ELSE p = 1 /\ q = 1 /\ b = 0
          /\ op' = "auto_vertical_center"
          /\ args' = [image |-> AvcImage(kind, nx, p, q, a, b)]
          /\ ret' = auto_vertical_center(AvcImage(kind, nx, p, q, a, b),
                                         found_angle, found_at)


CallSimulateHelix ==
    /\ op = "idle"
    /\ \E twist \in SimTwists, rise \in SimRises, csym \in 1..MaxSimCsym,
          helical_radius \in SimRadii, ball_radius \in BallRadii,
          nx \in 3..MaxSimNx, apix \in {RInt(1), RInt(2)},
          tilt \in {0, 1}, az0 \in Azimuths :
       \E drawn \in IF az0 = NoneVal THEN AzimuthDraws ELSE {az0} :
          /\ op' = "simulate_helix"
          /\ args' = [twist |-> twist, rise |-> rise, csym |-> csym,
                      helical_radius |-> helical_radius,
                      ball_radius |-> ball_radius, ny |-> 3, nx |-> nx,
                      apix |-> apix, tilt |-> tilt, az0 |-> az0]
          /\ ret' = simulate_helix(twist, rise, csym, helical_radius,
                                   ball_radius, 3, nx, apix, tilt, az0, drawn)


\* the same call evaluated once more
RepeatSimulateHelix ==
    /\ op = "simulate_helix"
    /\ \E drawn \in IF args.az0 = NoneVal THEN AzimuthDraws ELSE {args.az0} :
          /\ op' = "simulate_helix_again"
          /\ args' = args
          /\ ret' = simulate_helix(args.twist, args.rise, args.csym,
                                   args.helical_radius, args.ball_radius,
                                   args.ny, args.nx, args.apix, args.tilt,
                                   args.az0, drawn)

\* one run of main up to the phase displays, with the filter fractions set
\* to 0; without a second image there is no data2 and no is_pwr2, and
\* without the checkboxes no box state
CallMain ==
    /\ op = "idle"
    /\ \E show_pwr, is_pwr, input_image2, is_pwr2, log_xform, phase_box,
          pd_box \in BOOLEAN, data \in MainImages,
          data2 \in MainImages \cup {<<>>} :
          /\ input_image2 <=> data2 # <<>>
          /\ ~input_image2 => ~is_pwr2
          /\ ~(show_pwr /\ PhaseOffered(is_pwr, input_image2, is_pwr2))
                => (~phase_box /\ ~pd_box)
          /\ op' = "main"
          /\ args' = [show_pwr |-> show_pwr, is_pwr |-> is_pwr,
                      input_image2 |-> input_image2, is_pwr2 |-> is_pwr2,
                      log_xform |-> log_xform, phase_box |-> phase_box,
                      pd_box |-> pd_box, data |-> data, data2 |-> data2]
          /\ ret' = main(show_pwr, is_pwr, input_image2, is_pwr2, log_xform,
                         RInt(0), RInt(0), phase_box, pd_box, data, data2)


CallLowHighPassFilter ==
    /\ op = "idle"
    /\ \E data \in FilterImages, low_pass_fraction \in FilterFractions,
          high_pass_fraction \in FilterFractions :
          /\ op' = "low_high_pass_filter"
          /\ args' = [data |-> data, low_pass_fraction |-> low_pass_fraction,
                      high_pass_fraction |-> high_pass_fraction]
          /\ ret' = low_high_pass_filter(data, low_pass_fraction,
                                         high_pass_fraction)


\* the calls of lines 406 and 415 with nyquist_res = 2*apix = 2, the filter
\* fractions 0, and an output of the input's size or of 4 x 4
CallResizeRescalePowerSpectra ==
    /\ op = "idle"
    /\ \E ny \in 2..MaxResizeSize, nx \in 2..MaxResizeSize,
          res \in {RInt(2), RInt(4)}, same_size \in BOOLEAN,
          log \in BOOLEAN :
          LET data == ResizeImage(ny, nx)
              output_size == IF same_size THEN <<ny, nx>> ELSE <<4, 4>>
          IN  /\ op' = "resize_rescale_power_spectra"
              /\ args' = [data |-> data, nyquist_res |-> RInt(2),
                          cutoff_res |-> <<res, res>>,
                          output_size |-> output_size, log |-> log]
              /\ ret' = resize_rescale_power_spectra(data, RInt(2),
                            <<res, res>>, output_size, log, RInt(0), RInt(0))


Next ==
    \/ CallDistinctSampling
    \/ CallComputeLayerLinePositions
    \/ CallNormalize
    \/ CallTapering
    \/ CallBesselNImage
    \/ CallComputePowerSpectra
    \/ CallRotateShiftImage
    \/ CallAutoVerticalCenter
    \/ CallSimulateHelix
    \/ RepeatSimulateHelix
    \/ CallMain
    \/ CallLowHighPassFilter
    \/ CallResizeRescalePowerSpectra

Spec == Init /\ [][Next]_vars

(***************************************************************************)
(* Claims.                                                                 *)
(***************************************************************************)
IsLL == op = "compute_layer_line_positions" /\ ret.status = "ok"

Groups == 1..Len(ret.groups)

\* i is an integer multiple of c (0 and negative multiples included)
IsMultiple(i, c) == \E k \in -Abs(i)..Abs(i) : i = k * c

\* the elements of a sequence
Elems(s) == {s[j] : j \in 1..Len(s)}

\* C1, as the spec states it: every vertical coordinate (sy) of the m = 0
\* group returned by compute_layer_line_positions is exactly 0.
C1_AllZero ==
    IsLL => \A g \in Groups :
                ret.groups[g].m = 0 => \A j \in 1..Len(ret.groups[g].py) : ret.groups[g].py[j][1] = 0

\* C1, amended: in the m = 0 group the peak of contribution index i lies at
\* sy = i/pitch (divided by cos(tilt)), on both mirrored halves; it is exactly
\* 0 for i = 0, which is always kept, and nonzero for every other kept index.
C1_ZeroOnlyAtIndexZero ==
    IsLL => \A g \in Groups :
                ret.groups[g].m = 0 =>
                    LET ll_i == ret.groups[g].ll_i
                        k == Len(ll_i)
                        py == ret.groups[g].py
                    IN  /\ Len(py) = 2 * k
                        /\ 0 \in Elems(ll_i)
                        /\ \A j \in 1..k :
                              /\ RMul(RMul(py[j], CosTilt(args.tilt)),
                                      RMul(RAbs(args.rise), RInt(360)))
                                    = RMul(RInt(ll_i[j]), RAbs(args.twist))
                              /\ py[j + k] = py[j]
                              /\ (py[j][1] = 0) <=> (ll_i[j] = 0)

\* C1, witness: a tilted m = 0 group with kept contributions on both sides of
\* the equator, whose outermost peak is off the equator
C1_Witness ==
    /\ IsLL
    /\ args.tilt # 0
    /\ \E g \in Groups :
          /\ ret.groups[g].m = 0
          /\ Len(ret.groups[g].ll_i) >= 3
          /\ ret.groups[g].py[1][1] < 0

IsDS == op = "distinct_sampling"

\* C2: for every n >= 1, distinct_sampling(n) has length n, contains each
\* index 0..n-1 exactly once (so never None), begins with 0, and is [0] for
\* n = 1.
C2_Permutation ==
    IsDS => /\ Len(ret) = args.n
            /\ ret[1] = 0
            /\ \A v \in 0..(args.n - 1) :
                  Cardinality({j \in 1..Len(ret) : ret[j] = v}) = 1
            /\ NoneVal \notin Elems(ret)
            /\ (args.n = 1 => ret = <<0>>)

\* C2, witness: distinct_sampling(5) = [0, 4, 3, 1, 2]
C2_Witness == IsDS /\ args.n = 5 /\ ret = <<0, 4, 3, 1, 2>>

\* C3: in every group, an index i of the enumerated range
\* [ll_i_bottom, ll_i_top] contributes a peak if and only if i is an integer
\* multiple of csym; each kept index contributes one peak and its mirror.
C3_OnlyMultiplesOfCsym ==
    IsLL => \A g \in Groups :
                LET ll_i == ret.groups[g].ll_i
                    kept == {i \in ret.groups[g].lo..ret.groups[g].hi : IsMultiple(i, args.csym)}
                IN  /\ Elems(ll_i) = kept
                    /\ Len(ll_i) = Cardinality(kept)
                    /\ Len(ret.groups[g].px) = 2 * Len(ll_i)
                    /\ Len(ret.groups[g].py) = 2 * Len(ll_i)

\* C3, witness: csym = 3 and a group that keeps -3, 0 and 3 and drops the
\* indices between them
C3_Witness ==
    /\ IsLL
    /\ args.csym = 3
    /\ \E g \in Groups :
          /\ {-3, 0, 3} \subseteq Elems(ret.groups[g].ll_i)
          /\ ret.groups[g].lo <= -4
          /\ {-2, -1, 1, 2} \cap Elems(ret.groups[g].ll_i) = {}

\* C4: with no explicit order list there is exactly one group for each m
\* with |m| <= floor(|rise/cutoff_res|) + 2, in the order 0, -1, 1, -2, 2, ...
C4_AutoOrders ==
    (IsLL /\ args.m = <<>>) =>
        \E m_max \in 2..Len(ret.groups) :
            /\ RLe(RInt(m_max - 2), RAbs(RDiv(args.rise, args.cutoff_res)))
            /\ RLt(RAbs(RDiv(args.rise, args.cutoff_res)), RInt(m_max - 1))
            /\ Len(ret.groups) = 2 * m_max + 1
            /\ ret.groups[1].m = 0
            /\ \A j \in 1..m_max : ret.groups[2 * j].m = -j /\ ret.groups[2 * j + 1].m = j

\* C4, witness: rise = 21.92 and cutoff_res = 10 give m_max = 4 and the nine
\* groups 0, -1, 1, ..., -4, 4
C4_Witness ==
    /\ IsLL
    /\ args.m = <<>>
    /\ Len(ret.groups) = 9
    /\ ret.groups[2].m = -1
    /\ ret.groups[9].m = 4

IsNorm == op = "normalize"

PLow == percentile(args.data, args.percentile[1])

PHigh == percentile(args.data, args.percentile[2])

Pixels == {<<r, c>> : r \in 1..NRows(args.data), c \in 1..NCols(args.data)}

\* C9: for a percentile pair (pLow <= pHigh) whose two values differ,
\* normalize maps every sample equal to the pLow value to exactly 0 and every
\* sample equal to the pHigh value to exactly 1; and for every pair whose two
\* values differ it is monotonically non-decreasing in the input value.
C9_NormalizeEndpointsMonotone ==
    (IsNorm /\ PLow # PHigh) =>
        /\ args.percentile[1] <= args.percentile[2] =>
              \A x \in Pixels :
                 /\ args.data[x[1]][x[2]] = PLow => ret.data[x[1]][x[2]] = RInt(0)
                 /\ args.data[x[1]][x[2]] = PHigh => ret.data[x[1]][x[2]] = RInt(1)
        /\ \A x, y \in Pixels :
              RLe(args.data[x[1]][x[2]], args.data[y[1]][y[2]])
                 => RLe(ret.data[x[1]][x[2]], ret.data[y[1]][y[2]])

\* C9, witness: a (25, 75) normalization of an image with negative and
\* positive samples, one of which equals the low percentile value and one
\* the high one
C9_Witness ==
    /\ IsNorm
    /\ args.percentile = <<25, 75>>
    /\ PLow # PHigh
    /\ PLow[1] < 0
    /\ \E x, y \in Pixels :
          /\ args.data[x[1]][x[2]] = PLow /\ ret.data[x[1]][x[2]] = RInt(0)
          /\ args.data[y[1]][y[2]] = PHigh /\ ret.data[y[1]][y[2]] = RInt(1)

\* C10, as the spec states it: when the low and the high percentile value are
\* equal, normalize fails; it never returns a grid computed by dividing by a
\* zero range.
C10_FailsOnZeroRange ==
    (IsNorm /\ PLow = PHigh) =>
        /\ ret.status = "error"
        /\ \A x \in Pixels : IsFinite(ret.data[x[1]][x[2]])

IsTaper == op = "tapering"

\* the cosine roll-off of the spec for one axis: 1 inside the start fraction
\* of the half-extent, 0 beyond start + slope, the half cosine in between
SpecRollOff(k, n, f, slope) ==
    LET y == Rat(Abs(k), n \div 2)
    IN  IF RLe(y, f) THEN RInt(1)
        ELSE IF RLe(RAdd(f, slope), y) THEN RInt(0)
        ELSE RollOff(RDiv(RSub(y, f), slope))

\* C7, as the spec states it: tapering applies the roll-off per axis
\* independently; an axis whose start fraction is in (0,1) is multiplied by
\* its mask whatever the other axis's fraction is, and only an axis whose own
\* fraction is outside (0,1) is left untouched.
C7_TaperPerAxis ==
    IsTaper =>
        LET ny == NRows(args.data)
            nx == NCols(args.data)
            fy == args.fraction_start[1]
            fx == args.fraction_start[2]
            fs == args.fraction_slope
        IN  \A r \in 1..ny, c \in 1..nx :
               ret[r][c] =
                  RMul(args.data[r][c],
                       RMul(IF RLt(RInt(0), fy) /\ RLt(fy, RInt(1))
                               THEN SpecRollOff(r - 1 - ny \div 2, ny, fy, fs)
                               ELSE RInt(1),
                            IF RLt(RInt(0), fx) /\ RLt(fx, RInt(1))
                               THEN SpecRollOff(c - 1 - nx \div 2, nx, fx, fs)
                               ELSE RInt(1)))

\* C8: if the start fraction of an axis is outside (0,1), tapering leaves the
\* image unchanged along that axis: the factor result/data does not vary
\* along the axis (the samples of the images are nonzero, so the factor is
\* compared by cross-multiplication), and it is 1 where the other axis's
\* mask is 1 (at the centre).
C8_IdentityOnAxisOutsideUnit ==
    IsTaper =>
        LET ny == NRows(args.data)
            nx == NCols(args.data)
            fy == args.fraction_start[1]
            fx == args.fraction_start[2]
            OutsideUnit(f) == RLe(f, RInt(0)) \/ RLe(RInt(1), f)
        IN  /\ OutsideUnit(fy) =>
                  \A c \in 1..nx :
                     /\ \A r1, r2 \in 1..ny :
                           RMul(ret[r1][c], args.data[r2][c])
                              = RMul(ret[r2][c], args.data[r1][c])
                     /\ c = nx \div 2 + 1 => \A r \in 1..ny : ret[r][c] = args.data[r][c]
            /\ OutsideUnit(fx) =>
                  \A r \in 1..ny :
                     /\ \A c1, c2 \in 1..nx :
                           RMul(ret[r][c1], args.data[r][c2])
                              = RMul(ret[r][c2], args.data[r][c1])
                     /\ r = ny \div 2 + 1 => \A c \in 1..nx : ret[r][c] = args.data[r][c]

\* C8, witness: a call with fy = 0 and fx = 1/4
C8_Witness ==
    /\ IsTaper
    /\ args.fraction_start = <<RInt(0), Rat(1, 4)>>
    /\ args.fraction_slope = Rat(1, 2)
    /\ ret = args.data

IsBessel == op = "bessel_n_image"

\* C6, as the spec states it: with tilt = 0 the grid is invariant under
\* horizontal mirroring for every width nx, even or odd: the order at column
\* j equals the order at column nx-1-j in every row (columns 1-based here).
C6_MirrorEveryWidth ==
    (IsBessel /\ args.tilt = 0) =>
        \A r \in 1..args.ny, c \in 1..args.nx :
            ret[r][c] = ret[r][args.nx + 1 - c]

\* C6, amended: with tilt = 0 the grid is mirror-symmetric about the origin
\* column nx//2: the orders at the columns nx//2 + k and nx//2 - k are equal
\* whenever both columns exist.  For odd nx that is the mirror j <-> nx-1-j;
\* for even nx column 0 has no partner.
C6_MirrorAboutOrigin ==
    (IsBessel /\ args.tilt = 0) =>
        LET c0 == args.nx \div 2 + 1
        IN  /\ \A r \in 1..args.ny, k \in 0..args.nx :
                  (c0 - k >= 1 /\ c0 + k <= args.nx)
                     => ret[r][c0 - k] = ret[r][c0 + k]
            /\ args.nx % 2 = 1 =>
                  \A r \in 1..args.ny, c \in 1..args.nx :
                     ret[r][c] = ret[r][args.nx + 1 - c]

\* C6, witness: an even width whose columns carry different orders on the
\* two sides of the origin column
C6_Witness ==
    /\ IsBessel
    /\ args.tilt = 0
    /\ args.nx = 6
    /\ ret[1][3] = ret[1][5]
    /\ ret[1][3] # ret[1][4]
    /\ ret[1][1] # ret[1][6]

IsCPS == op = "compute_power_spectra"

\* the un-logged Fourier magnitude of the spec, band-filtered when a fraction
\* is in (0,1), and normalized to [0,1]
SpecUnloggedSpectrum ==
    LET fft == fftshift(fft_rescale(args.data))
        mag == [a \in 1..2 |-> [b \in 1..2 |-> RAbs(fft[a][b])]]
        lp == args.low_pass_fraction
        hp == args.high_pass_fraction
        InZeroOne(f) == RLt(RInt(0), f) /\ RLt(f, RInt(1))
    IN  normalize(IF InZeroOne(lp) \/ InZeroOne(hp)
                  THEN low_high_pass_filter(mag, lp, hp) ELSE mag, 0, 100).data

\* C5, as the spec states it: compute_power_spectra returns an amplitude grid
\* and a phase grid for either value of the log flag; with log = False it
\* returns the un-logged Fourier magnitude, band-filtered and normalized,
\* instead of ending in an error.
C5_ReturnsForEitherLog ==
    IsCPS =>
        /\ ret.status = "ok"
        /\ NRows(ret.pwr) = 2 /\ NRows(ret.phase) = 2
        /\ ~args.log => ret.pwr = SpecUnloggedSpectrum

IsRot == op = "rotate_shift_image"

ZeroShift(s) == s.v = <<RInt(0), RInt(0)>>

\* C11: rotate_shift_image called with angle = 0 and both shifts zero, given
\* as lists or as the default tuples, returns an image whose every sample
\* equals the corresponding sample of the input.
C11_NoOpReturnsInput ==
    (IsRot /\ args.angle = 0 /\ ZeroShift(args.pre_shift)
           /\ ZeroShift(args.post_shift))
    => /\ NRows(ret) = NRows(args.data)
       /\ \A r \in 1..NRows(ret) :
             /\ Len(ret[r]) = NCols(args.data)
             /\ \A c \in 1..NCols(args.data) : ret[r][c] = args.data[r][c]

\* the default arguments (tuples): the call goes through affine_transform
C11_Witness ==
    /\ IsRot /\ args.angle = 0
    /\ ZeroShift(args.pre_shift) /\ ~args.pre_shift.list
    /\ ZeroShift(args.post_shift) /\ ~args.post_shift.list
    /\ NCols(args.data) = 4
    /\ ret[1][1] = RInt(1) /\ ret[3][4] = RInt(12)


IsAVC == op = "auto_vertical_center"

\* the background of line 896 equals the maximum of the image
ZeroDynamicRange(image) == Background(image) = FMaxOf(Flatten(image))

\* C12: auto_vertical_center given an image with zero dynamic range returns
\* the zero transform (angle 0, shift 0) without raising and without running
\* the searches.
C12_ZeroTransformOnFlatImage ==
    (IsAVC /\ ZeroDynamicRange(args.image))
    => /\ ret.status = "ok"
       /\ ~ret.searched
       /\ ret.angle = 0
       /\ ret.dx = RInt(0)

\* the peak-normalized horizontal projection of the image rotated by the
\* angle that was found (lines 932-934)
NormalizedProjection ==
    PeakNormalized(ColumnSums(
        rotate_shift_image(WorkImage(args.image), ret.angle,
                           [list |-> FALSE, v |-> <<RInt(0), RInt(0)>>],
                           [list |-> FALSE, v |-> <<RInt(0), RInt(0)>>])))

\* the columns whose normalized projection is at least 20% of the peak
AtLeastFifth(y) == {c \in 1..Len(y) : y[c] # NaN /\ ~FLt(y[c], Rat(1, 5))}

\* C20: in the fine shift stage of auto_vertical_center the bound of the
\* shift search is derived from the first and the last column whose
\* peak-normalized horizontal projection is at least 20% of the peak.
C20_ExtentAtFifthOfPeak ==
    (IsAVC /\ ret.status = "ok")
    => /\ AtLeastFifth(NormalizedProjection) # {}
       /\ ret.max_shift = MaxShift(AtLeastFifth(NormalizedProjection),
                                   NCols(args.image))


IsSim == op = "simulate_helix"

\* C13: simulate_helix called with ball_radius = 0 returns an image whose
\* every pixel is exactly 0: every term exp(e) of every pixel is 0.
C13_ZeroBallRadiusAllZero ==
    (IsSim /\ args.ball_radius = RInt(0))
    => \A r \in 1..args.ny : \A c \in 1..args.nx :
          \A k \in 1..Len(ret.projection[r][c]) :
             ExpIsZero(ret.projection[r][c][k])

\* C16: two evaluations of simulate_helix with identical arguments, az0
\* omitted or not, produce identical results.
C16_SameArgumentsSameResult ==
    [][(op = "simulate_helix" /\ op' = "simulate_helix_again")
          => ret'.projection = ret.projection]_vars

\* C19: for rise > 0 the centres array has (2*imax+1)*csym rows, every row
\* is written exactly once, and every pair (i, si) with i in -imax..imax and
\* si in 0..csym-1 has a row holding its centre, with z = rise*i.
C19_OneRowPerSubunit ==
    IsSim =>
       LET imax == IMax(RMul(RInt(args.ny), args.apix), args.rise)
           n == (2 * imax + 1) * args.csym
       IN  /\ Len(ret.centers) = n
           /\ \A r \in 1..n : ret.centers[r].writes = 1
           /\ \A i \in (-imax)..imax : \A si \in 0..(args.csym - 1) :
                 \E r \in 1..n :
                    /\ ret.centers[r].z = RMul(args.rise, RInt(i))
                    /\ ret.centers[r].x
                          = RMul(CosDeg(AngleDeg(args.twist, i, si, args.csym,
                                                 ret.az0)),
                                 args.helical_radius)
                    /\ ret.centers[r].y
                          = RMul(SinDeg(AngleDeg(args.twist, i, si, args.csym,
                                                 ret.az0)),
                                 args.helical_radius)

\* three subunits per step over seven steps, rows -9..-1 used for i < 0
C19_Witness ==
    /\ IsSim /\ args.csym = 3 /\ args.apix = RInt(2)
    /\ Len(ret.centers) = 21
    /\ ret.centers[21].z = RInt(-2)
    /\ ret.centers[13].z = RInt(-6)
    /\ ret.centers[12].z = RInt(6)



\* C14: a call of compute_layer_line_positions with twist = 0, csym < 1 or
\* radius <= 0 ends in an error and returns no group map.
InvalidParameter ==
    \/ args.twist = RInt(0)
    \/ args.csym < 1
    \/ RLe(args.radius, RInt(0))

C14_RejectsInvalidParameters ==
    (op = "compute_layer_line_positions" /\ InvalidParameter) =>
        ret.status # "ok"



\* a length rounded to two decimals, in hundredths
Round2(r) == RFloor(RAdd(RMul(r, RInt(100)), Rat(1, 2)))

IsExample ==
    /\ IsLL
    /\ args.twist = Rat(147, 5)
    /\ args.rise = Rat(548, 25)
    /\ args.tilt = 0

\* the pitch the returned peaks are spaced by: the kept index i # 0 of the
\* group of order m lies at sy = m/rise + i/pitch
SpacingPitches ==
    UNION {{RDiv(RInt(ret.groups[g].ll_i[j]),
                 RSub(ret.groups[g].py[j],
                      RDiv(RInt(ret.groups[g].m), args.rise))) :
              j \in {k \in 1..Len(ret.groups[g].ll_i) :
                        ret.groups[g].ll_i[k] # 0}} : g \in Groups}

\* C15 as stated: for twist = 29.40 and rise = 21.92 the pitch, from
\* Data.pitch and from the spacing of the returned layer lines, is 268.45
\* when rounded to two decimals.
C15_PitchIs26845 ==
    IsExample =>
        /\ Round2(DataPitch(args.twist, args.rise)) = 26845
        /\ \A p \in SpacingPitches : Round2(p) = 26845

\* C15, amended: for twist = 29.40 and rise = 21.92 the pitch, from
\* Data.pitch and from the spacing of the returned layer lines, is 268.41
\* when rounded to two decimals (21.92 * 360 / 29.4 = 268.408...).
C15_PitchIs26841 ==
    IsExample =>
        /\ Round2(DataPitch(args.twist, args.rise)) = 26841
        /\ \A p \in SpacingPitches : Round2(p) = 26841

\* C15, witness: the example call whose order-0 group holds the layer line
\* i = 1 at sy = 1/pitch = 49/13152
C15_Witness ==
    /\ IsExample
    /\ ret.groups[1].m = 0
    /\ \E j \in 1..Len(ret.groups[1].ll_i) :
          /\ ret.groups[1].ll_i[j] = 1
          /\ ret.groups[1].py[j] = Rat(49, 13152)



\* the scaled frequency of the pixel at row r, column c (1-based)
PixelX(r, c) ==
    IF args.tilt # 0
    THEN XTilted(r - 1, c - 1, args.ny, args.nx, args.nyquist_res_x,
                 args.radius, args.tilt)
    ELSE Xs(c - 1, args.nx, args.nyquist_res_x, args.radius)

\* the table of the call: the first peaks below the largest frequency
TableOfCall ==
    build_bessel_order_table(
        RMaxOf(Flatten([r \in 1..args.ny |-> [c \in 1..args.nx |-> PixelX(r, c)]])))

\* C18: the table starts with 0 for order 0 and increases strictly; every
\* pixel holds an index n of the table such that no tabulated peak is nearer
\* to the pixel's scaled frequency than the peak of n, and every lower order
\* is strictly farther.
C18_NearestTabulatedOrder ==
    IsBessel =>
        LET table == Evaluated(TableOfCall)
            dist(n, x) == RAbs(RSub(table[n + 1], x))
        IN  /\ table[1] = RInt(0)
            /\ \A n1 \in 2..Len(table) : RLt(table[n1 - 1], table[n1])
            /\ \A r \in 1..args.ny, c \in 1..args.nx :
                  LET n == ret[r][c]
                      x == PixelX(r, c)
                  IN  /\ n \in 0..(Len(table) - 1)
                      /\ \A k \in 0..(Len(table) - 1) :
                            /\ RLe(dist(n, x), dist(k, x))
                            /\ k < n => RLt(dist(n, x), dist(k, x))

\* C18, witness: a grid with a pixel as near to the peak of order 0 as to
\* the peak of order 1, which holds order 0, beside a pixel of order 1
C18_Witness ==
    /\ IsBessel
    /\ args.tilt = 0
    /\ \E c \in 1..args.nx :
          /\ PixelX(1, c) = RDiv(jnp_zeros(1), RInt(2))
          /\ ret[1][c] = 0
    /\ \E c \in 1..args.nx : ret[1][c] = 1



IsMain == op = "main" /\ args.show_pwr

SomeRawInput == ~args.is_pwr \/ (args.input_image2 /\ ~args.is_pwr2)

\* C17: in a run of main that shows the power spectra, phase holds a grid
\* exactly when some input is a raw image, and phase is never None where a
\* phase display uses it.
C17_PhaseExactlyOnRawPaths ==
    IsMain =>
        /\ SomeRawInput <=> (ret.status = "ok" /\ ~ret.phase.none)
        /\ ret.status # "TypeError"



\* C21: in every returned group px and py have the length 2k, k the number
\* of kept contributions, and entry j+k mirrors entry j: px[j+k] = -px[j]
\* and py[j+k] = py[j], whatever the tilt.
C21_MirroredHalves ==
    IsLL =>
        \A g \in Groups :
            LET k == Len(ret.groups[g].ll_i)
                px == ret.groups[g].px
                py == ret.groups[g].py
            IN  /\ Len(px) = 2 * k
                /\ Len(py) = 2 * k
                /\ \A j \in 1..k : /\ px[j + k] = RNeg(px[j])
                                   /\ py[j + k] = py[j]

\* C21, witness: a tilted call with a group of several contributions, one
\* of them clamped to 1e-6 and one not
C21_Witness ==
    /\ IsLL
    /\ args.tilt # 0
    /\ \E g \in Groups :
          LET k == Len(ret.groups[g].ll_i)
              px == ret.groups[g].px
          IN  /\ k >= 3
              /\ \E j \in 1..k : /\ px[j] = Rat(1, 1000000)
                                 /\ px[j + k] = Rat(-1, 1000000)
              /\ \E j \in 1..k : RLt(Rat(1, 1000000), px[j])



IsAutoUntilted == IsLL /\ args.tilt = 0 /\ args.m = <<>>

\* C22: with tilt = 0 and auto-derived orders every peak of every group lies
\* within the cutoff: |sy| <= 1/cutoff_res.
C22_PeaksWithinCutoff ==
    IsAutoUntilted =>
        \A g \in Groups : \A j \in 1..Len(ret.groups[g].py) :
            RLe(RAbs(ret.groups[g].py[j]), RDiv(RInt(1), args.cutoff_res))



\* C23: in distinct_sampling(n), n >= 2, the element at every position p
\* after the first is, among the elements not chosen before p, one at the
\* largest distance from the second most recent choice (from 0 when only 0
\* was chosen), and the smallest of those; the second element is n - 1.
C23_GreedyFarthest ==
    (IsDS /\ args.n >= 2) =>
        /\ ret[2] = args.n - 1
        /\ \A p \in 2..Len(ret) :
              LET ref == IF p >= 3 THEN ret[p - 2] ELSE ret[1]
                  remaining == {ret[q] : q \in p..Len(ret)}
              IN  \A v \in remaining :
                     \/ Abs(v - ref) < Abs(ret[p] - ref)
                     \/ (Abs(v - ref) = Abs(ret[p] - ref) /\ ret[p] <= v)

\* C23, witness: distinct_sampling(6) = [0, 5, 4, 1, 2, 3]
C23_Witness == IsDS /\ args.n = 6 /\ ret = <<0, 5, 4, 1, 2, 3>>



IsFilter == op = "low_high_pass_filter"

\* C24: when both fractions are outside (0,1) the image low_high_pass_filter
\* returns equals its input at every pixel.
C24_SkippedFilterReturnsInput ==
    (IsFilter /\ ~InUnit(args.low_pass_fraction)
              /\ ~InUnit(args.high_pass_fraction)) =>
        \A a \in 1..2, b \in 1..2 : ret[a][b] = args.data[a][b]



\* the input position the spec gives for the output position o (0-based
\* <<y, x>>): M(angle)*(o - post_shift - c) + c - pre_shift, c = (ny//2, nx//2)
SampledPosition(o) ==
    LET c == <<RInt(NRows(args.data) \div 2), RInt(NCols(args.data) \div 2)>>
        post == args.post_shift.v
        pre == args.pre_shift.v
        d == <<RSub(RSub(o[1], post[1]), c[1]), RSub(RSub(o[2], post[2]), c[2])>>
        md == Dot(RotationMatrix(args.angle), d)
    IN  <<RSub(RAdd(md[1], c[1]), pre[1]), RSub(RAdd(md[2], c[2]), pre[2])>>

\* the input translated by <<dy, dx>>, dx an integer and dy an integer or
\* an integer and a half, at the 1-based position (r, c): the sample that
\* comes from (r - dy, c - dx), the mean of the two rows around it for a
\* half row, and 0 from outside the image
TranslatedSample(r, c, dy, dx) ==
    LET y == RSub(RInt(r - 1), dy)
        x == c - 1 - dx[1]
        y0 == RFloor(y)
        data == args.data
    IN  IF RLt(y, RInt(0)) \/ RLt(RInt(NRows(data) - 1), y)
           \/ x < 0 \/ x > NCols(data) - 1
        THEN RInt(0)
        ELSE IF y = RInt(y0) THEN data[y0 + 1][x + 1]
        ELSE RDiv(RAdd(data[y0 + 1][x + 1], data[y0 + 2][x + 1]), RInt(2))

\* C25: every output sample of rotate_shift_image is the input sampled at
\* M(angle)*(o - post_shift - c) + c - pre_shift; with zero shifts the sample
\* at the rotation centre is the input's for every angle; with angle = 0 the
\* result is the input translated by pre_shift + post_shift.
C25_ShiftRotateShift ==
    IsRot =>
        LET data == args.data
            ny == NRows(data)
            nx == NCols(data)
            pre == args.pre_shift.v
            post == args.post_shift.v
        IN  /\ \A r \in 1..ny, c \in 1..nx :
                  LET pos == SampledPosition(<<RInt(r - 1), RInt(c - 1)>>)
                  IN  ret[r][c] = Interpolate(data, pos[1], pos[2])
            /\ (ZeroShift(args.pre_shift) /\ ZeroShift(args.post_shift)) =>
                  ret[ny \div 2 + 1][nx \div 2 + 1]
                     = data[ny \div 2 + 1][nx \div 2 + 1]
            /\ args.angle = 0 =>
                  \A r \in 1..ny, c \in 1..nx :
                     ret[r][c] = TranslatedSample(r, c, RAdd(pre[1], post[1]),
                                                  RAdd(pre[2], post[2]))

\* C25, witness: a rotated call with a pre-shift and a different post-shift
\* whose result keeps part of the image
C25_Witness ==
    /\ IsRot
    /\ args.angle # 0
    /\ args.pre_shift.v = <<RInt(0), RInt(1)>>
    /\ args.post_shift.v = <<Rat(1, 2), RInt(0)>>
    /\ \E r \in 1..NRows(ret), c \in 1..NCols(ret) : ret[r][c] # RInt(0)



\* the peaks (sx, sy) of the group g
PeaksOf(g) ==
    {<<ret.groups[g].px[j], ret.groups[g].py[j]>> :
        j \in 1..Len(ret.groups[g].px)}

\* the peaks of the group g reflected about the equator sy = 0
ReflectedPeaksOf(g) ==
    {<<ret.groups[g].px[j], RNeg(ret.groups[g].py[j])>> :
        j \in 1..Len(ret.groups[g].px)}

\* C26: with tilt = 0 and auto-derived orders, (sx, sy) is a peak of the
\* group m if and only if (sx, -sy) is a peak of the group -m, for every m.
C26_EquatorSymmetry ==
    IsAutoUntilted =>
        \A g, h \in Groups :
            ret.groups[h].m = -ret.groups[g].m =>
                PeaksOf(g) = ReflectedPeaksOf(h)



IsResize == op = "resize_rescale_power_spectra"

\* C27: when cutoff_res equals nyquist_res on both axes and output_size is
\* the input's shape, output pixel (r, c) is sampled at the input coordinate
\* (r, c), no coordinate lies outside the input, and the resampled grid
\* equals the input, for every input size.
C27_IdentityResampling ==
    (IsResize /\ args.cutoff_res = <<args.nyquist_res, args.nyquist_res>>
              /\ args.output_size = <<NRows(args.data), NCols(args.data)>>) =>
        /\ \A r \in 1..NRows(args.data) : ret.Y[r] = r - 1
        /\ \A c \in 1..NCols(args.data) : ret.X[c] = c - 1
        /\ ret.resampled = args.data



\* the scaled frequency of the column c (1-based) on main's x-axis:
\* 2*pi*radius * |j - nx//2| * dsx at the 0-based column j
PlottedX(c) ==
    RMul(RMul(RMul(TwoPi, RInt(CentredAbs(c - 1, args.nx))),
              dsx(args.nx, args.nyquist_res_x)),
         args.radius)

\* C28: with tilt = 0 the frequency step of bessel_n_image is main's dsx =
\* 1/(nx//2 * cutoff_res_x), so the order annotated at every pixel is the
\* order nearest to the pixel's plotted frequency |j - nx//2| * dsx.
C28_SameStepAsDisplay ==
    (IsBessel /\ args.tilt = 0) =>
        LET table == Evaluated(build_bessel_order_table(
                        RMaxOf([c \in 1..args.nx |-> PlottedX(c)])))
        IN  /\ FreqStep(args.nyquist_res_x, args.nx)
                  = dsx(args.nx, args.nyquist_res_x)
            /\ \A r \in 1..args.ny, c \in 1..args.nx :
                  ret[r][c] = NearestOrder(table, PlottedX(c))


====
